---- MODULE Spec2Model ----
(***************************************************************************)
(* The playback engine of js/player.js (class Player): the play queue in   *)
(* its three forms, the shuffle / smart-shuffle cycle, the transport       *)
(* operations, autoqueue fetches, the preload cache and the persisted      *)
(* session.  Tracks are modelled by their ids; indices are JavaScript's    *)
(* (0-based, -1 = nothing loaded).  Every await of the source is a point   *)
(* where the continuation is parked in a task variable and resumed by its  *)
(* own action, so other handlers may run in between.                       *)
(***************************************************************************)
EXTENDS Integers, Sequences, FiniteSets, TLC

\* ---------------------------------------------------------------- bounds
\* no handler makes a queue form grow beyond MaxLen entries
MaxLen == 3
\* enableSmartShuffle calls in flight at once
MaxSmartTasks == 1
\* recommendations one smart-shuffle call can return
MaxRecs == 1
\* preloadNextTracks runs in flight at once
MaxPreloads == 1
\* fetchAutoqueueRecommendations calls in flight at once
MaxFetches == 2
\* playTrackFromQueue calls in flight at once
MaxPlays == 1
\* tracks one autoqueue answer can hold
MaxFetchRecs == 2
\* seconds of playback the model counts
MaxTime == 4
\* minutes of wall-clock time the model counts
MaxNow == 4
\* sleep timers set in one session
MaxTimers == 3
\* the longest sleep timer, in minutes
MaxMinutes == 2
\* fields an older stored session lacks, unless it lacks them all
MaxAbsent == 1
\* tracks of the shuffled playlist a stored session holds
MaxStored == 12
\* recommendations one smart-shuffle call over that playlist can return
MaxStoredRecs == 2

\* ------------------------------------------------------ program constants
\* REPEAT_MODE of utils.js as used by toggleRepeat: (repeatMode + 1) % 3
REPEAT_OFF == 0
REPEAT_ALL == 1
REPEAT_ONE == 2
RepeatModulus == 3
\* playPrev restarts the track when audio.currentTime > 3
PrevRestartSeconds == 3
\* preloadNextTracks looks 2 tracks ahead
PreloadAhead == 2
\* enableSmartShuffle: Math.floor(Math.random() * 10) + 1
SmartInsertSpread == 10
\* enableSmartShuffle: slice(currentQueueIndex + 1, currentQueueIndex + 21)
SmartContextSpan == 20
\* isNearEnd: currentQueueIndex >= currentQueue.length - 3
NearEndDistance == 3
\* autoqueueSeeds: newTracks.slice(0, 3)
SeedTake == 3

\* null / undefined track
NoTrack == 0
\* this.sleepTimer = null, this.sleepTimerEndTime = null
NoTimer == 0
\* the tracks of the model, by id: two played from local files (track.isLocal)
\* and two streamed ones, which are also what the search and recommendation
\* services answer with
LocalIds == {1, 2}
RemoteIds == {3, 4}
\* a streamed album one track longer than the lists the other callers hand
\* over; its first tracks are the ones the services answer with
Album == [k \in 1..(MaxLen + 1) |-> k + 2]
\* a streamed playlist of tracks the services do not answer with
Playlist == [k \in 1..MaxStored |-> Album[Len(Album)] + k]
AllIds == LocalIds \cup RemoteIds \cup {Album[k] : k \in 1..Len(Album)}
              \cup {Playlist[k] : k \in 1..Len(Playlist)}
\* track.isLocal
IsLocal(t) == t \in LocalIds

VARIABLES
    queue,                       \* this.queue
    shuffledQueue,               \* this.shuffledQueue
    originalQueueBeforeShuffle,  \* this.originalQueueBeforeShuffle
    currentQueueIndex,           \* this.currentQueueIndex
    shuffleActive,               \* this.shuffleActive
    smartShuffleActive,          \* this.smartShuffleActive
    repeatMode,                  \* this.repeatMode
    currentTrack,                \* this.currentTrack (NoTrack = null)
    autoqueueEnabled,            \* this.autoqueueEnabled
    autoqueueLoading,            \* this.autoqueueLoading
    autoqueueSeeds,              \* this.autoqueueSeeds
    preloadCache,                \* keys of this.preloadCache
    audioTime,                   \* this.audio.currentTime, whole seconds
    saved,                       \* what queueManager.saveQueue last stored
    smartTasks,                  \* parked enableSmartShuffle continuations
    preloads,                    \* parked preloadNextTracks continuations
    fetches,                     \* number of parked fetchAutoqueueRecommendations continuations
    plays,                       \* number of parked playTrackFromQueue continuations
    lastOp,                      \* the handler that ran last
    cycle,                       \* the shuffle cycle under observation
    sleepTimer,                  \* this.sleepTimer, the handle setTimeout gave
    sleepTimerEndTime,           \* this.sleepTimerEndTime, in minutes
    timeouts,                    \* the timeouts the browser holds: handle, deadline
    timersSet,                   \* handles given out so far
    now,                         \* Date.now(), in minutes
    pauses                       \* this.audio.pause() calls of the sleep timer

session == <<queue, shuffledQueue, originalQueueBeforeShuffle, currentQueueIndex,
             shuffleActive, smartShuffleActive, repeatMode, autoqueueEnabled,
             autoqueueSeeds>>
vars == <<queue, shuffledQueue, originalQueueBeforeShuffle, currentQueueIndex,
          shuffleActive, smartShuffleActive, repeatMode, currentTrack,
          autoqueueEnabled, autoqueueLoading, autoqueueSeeds, preloadCache,
          audioTime, saved, smartTasks, preloads, fetches, plays, lastOp, cycle,
          sleepTimer, sleepTimerEndTime, timeouts, timersSet, now, pauses>>

\* the state of the sleep timer, which no other handler touches
sleepVars == <<sleepTimer, sleepTimerEndTime, timeouts, timersSet, now, pauses>>

\* ------------------------------------------------- JavaScript array helpers
\* a[i] with a 0-based index; undefined (NoTrack) outside the array
At(a, i) == IF i >= 0 /\ i < Len(a) THEN a[i + 1] ELSE NoTrack

\* Array.prototype.slice(from, to) for 0 <= from
Slice(a, from, to) ==
    LET hi == IF to < Len(a) THEN to ELSE Len(a)
    IN  IF from >= hi THEN <<>> ELSE [k \in 1..(hi - from) |-> a[from + k]]

\* the position Array.prototype.splice(i, ...) starts from: a negative start
\* counts from the end of the array, and the result is clamped to the array
SpliceStart(a, i) ==
    IF i < 0 THEN (IF Len(a) + i < 0 THEN 0 ELSE Len(a) + i)
    ELSE IF i > Len(a) THEN Len(a) ELSE i

\* a.splice(i, 1) for 0 <= i: the array left over
SpliceOut(a, i) ==
    IF i >= Len(a) THEN a ELSE Slice(a, 0, i) \o Slice(a, i + 1, Len(a))

\* a.splice(i, 0, t): a start beyond the end appends
SpliceIn(a, i, t) ==
    IF i >= Len(a) THEN Append(a, t)
    ELSE Slice(a, 0, SpliceStart(a, i)) \o <<t>> \o Slice(a, SpliceStart(a, i), Len(a))

\* a.findIndex(x => x.id === id); -1 when absent or when id is undefined
FindIndex(a, id) ==
    IF id # NoTrack /\ \E k \in 1..Len(a) : a[k] = id
    THEN (CHOOSE k \in 1..Len(a) : a[k] = id /\ \A j \in 1..(k - 1) : a[j] # id) - 1
    ELSE -1

Ids(a) == {a[k] : k \in 1..Len(a)}

\* the orders Array.prototype.sort can leave under a random comparator
SortOutcomes(a) ==
    LET n == Len(a)
        bij == {f \in [1..n -> 1..n] : \A x, y \in 1..n : x # y => f[x] # f[y]}
    IN  {[k \in 1..n |-> a[f[k]]] : f \in bij}

\* how often id occurs in a
Count(a, id) == Cardinality({k \in 1..Len(a) : a[k] = id})
SameMultiset(a, b) == Len(a) = Len(b) /\ \A id \in AllIds : Count(a, id) = Count(b, id)

\* getCurrentQueue
ActiveOf(sh, q, sq) == IF sh THEN sq ELSE q
ActiveQueue == ActiveOf(shuffleActive, queue, shuffledQueue)

\* the object saveQueueState hands to queueManager.saveQueue
SessionOf(q, sq, oq, idx, sh, sm, rm, ae, seeds) ==
    [queue |-> q, shuffledQueue |-> sq, originalQueueBeforeShuffle |-> oq,
     currentQueueIndex |-> idx, shuffleActive |-> sh, smartShuffleActive |-> sm,
     repeatMode |-> rm, autoqueueEnabled |-> ae, autoqueueSeeds |-> seeds]

\* ---------------------------------------------------------- preloadNextTracks
\* tracksToPreload: the tracks at currentQueueIndex + 1 .. + 2 of the active
\* queue; below index -1 its first entry is undefined, reading track.id of
\* which throws inside the async call before anything is awaited
PreloadWindow(aq, idx) ==
    IF idx + 1 < 0 THEN <<>> ELSE Slice(aq, idx + 1, idx + 1 + PreloadAhead)

\* the loop runs on, skipping cached and local tracks, until it awaits
\* getStreamUrl
RECURSIVE SkipCached(_, _)
SkipCached(todo, cache) ==
    IF todo = <<>> THEN <<>>
    ELSE IF Head(todo) \in cache \/ IsLocal(Head(todo)) THEN SkipCached(Tail(todo), cache)
    ELSE todo

\* this.preloadAbortController.abort(): the controller of the call before is
\* aborted, and so are those of all earlier ones
Aborted(runs) == [k \in 1..Len(runs) |-> [runs[k] EXCEPT !.aborted = TRUE]]

\* the runs in flight after preloadNextTracks() was called, each with the
\* tracks it has still to resolve and the state of the controller its call
\* created: a run that has nothing to resolve ends at once
StartPreload(runs, aq, idx, cache) ==
    LET todo == SkipCached(PreloadWindow(aq, idx), cache)
    IN  IF todo = <<>> THEN Aborted(runs)
        ELSE Append(Aborted(runs), [todo |-> todo, aborted |-> FALSE])

\* the call would park a run
PreloadParks(aq, idx, cache) == SkipCached(PreloadWindow(aq, idx), cache) # <<>>
CanPreload(aq, idx, cache) == PreloadParks(aq, idx, cache) => Len(preloads) < MaxPreloads

NoCycle == [phase |-> "none", q |-> <<>>, idx |-> -1]

Init ==
    /\ queue = <<>>
    /\ shuffledQueue = <<>>
    /\ originalQueueBeforeShuffle = <<>>
    /\ currentQueueIndex = -1
    /\ shuffleActive = FALSE
    /\ smartShuffleActive = FALSE
    /\ repeatMode = REPEAT_OFF
    /\ currentTrack = NoTrack
    /\ autoqueueEnabled = FALSE
    /\ autoqueueLoading = FALSE
    /\ autoqueueSeeds = <<>>
    /\ preloadCache = {}
    /\ audioTime = 0
    /\ saved = SessionOf(<<>>, <<>>, <<>>, -1, FALSE, FALSE, REPEAT_OFF, FALSE, <<>>)
    /\ smartTasks = <<>>
    /\ preloads = <<>>
    /\ fetches = 0
    /\ plays = 0
    /\ lastOp = [name |-> "init", track |-> NoTrack, args |-> <<>>]
    /\ cycle = NoCycle
    /\ sleepTimer = NoTimer
    /\ sleepTimerEndTime = NoTimer
    /\ timeouts = {}
    /\ timersSet = 0
    /\ now = 0
    /\ pauses = 0

\* ------------------------------------------------------ shared handler parts
\* saveQueueState(): the nine fields as they stand when the handler ends
saveQueueState ==
    saved' = SessionOf(queue', shuffledQueue', originalQueueBeforeShuffle',
                       currentQueueIndex', shuffleActive', smartShuffleActive',
                       repeatMode', autoqueueEnabled', autoqueueSeeds')

\* preloadNextTracks() up to its first await
preloadNextTracks ==
    LET aq == ActiveOf(shuffleActive', queue', shuffledQueue')
    IN  /\ CanPreload(aq, currentQueueIndex', preloadCache')
        /\ preloads' = StartPreload(preloads, aq, currentQueueIndex', preloadCache')

\* playTrackFromQueue() up to its first await: the early return, then
\* this.currentTrack = track; the rest resumes in PlayStarted
playTrackFromQueue ==
    LET aq == ActiveOf(shuffleActive', queue', shuffledQueue')
        idx == currentQueueIndex'
    IN  IF idx >= 0 /\ idx < Len(aq)
        THEN /\ plays < MaxPlays
             /\ currentTrack' = At(aq, idx)
             /\ plays' = plays + 1
        ELSE UNCHANGED <<currentTrack, plays>>

\* fetchAutoqueueRecommendations() up to its first await
fetchAutoqueueRecommendations(loading) ==
    IF loading \/ ~autoqueueEnabled'
    THEN autoqueueLoading' = loading /\ UNCHANGED fetches
    ELSE /\ fetches < MaxFetches
         /\ autoqueueLoading' = TRUE
         /\ fetches' = fetches + 1

\* lastOp names the handler or continuation that ran last; track is the track
\* addNextToQueue was given and args the arguments setQueue was called with
\* or, when removeFromQueue removed the current position, the track that
\* followed it; NoTrack and <<>> for every other handler
Op(name) ==
    /\ lastOp' = [name |-> name, track |-> NoTrack, args |-> <<>>]
    /\ UNCHANGED sleepVars

\* a transport handler ran last; when it went on to start a track, args holds
\* the index and the track it found
OpFrom(name, started) ==
    /\ lastOp' = [name |-> name, track |-> NoTrack,
                  args |-> IF started THEN <<currentQueueIndex, currentTrack>> ELSE <<>>]
    /\ UNCHANGED sleepVars

\* every handler but toggleShuffle and the steps it awaits ends the observed
\* shuffle cycle
EndCycle == cycle' = NoCycle

\* the track lists callers hand to setQueue: the tracks of a set S (an album,
\* a playlist, search results), each once, in some order
TrackLists(S) ==
    {tracks \in UNION {[1..n -> S] : n \in 1..MaxLen} :
        \A i, j \in 1..Len(tracks) : i # j => tracks[i] # tracks[j]}

\* ------------------------------------------------------------------ setQueue
\* autoqueueSeeds = autoqueue && tracks.length > 0 ? [tracks[0]] : []
SetQueueSeeds(tracks, autoqueue) ==
    IF autoqueue /\ Len(tracks) > 0 THEN <<tracks[1]>> ELSE <<>>

\* this.currentQueueIndex = startIndex
SetQueueIndex(startIndex) == startIndex

\* a faulty variant that keeps the shuffle flag it finds
SetQueueShuffleKept == shuffleActive

\* this.shuffleActive = false; this.smartShuffleActive = false
SetQueueShuffle == FALSE

\* a faulty variant that starts the fetch for longer queues only
SetQueueFetchesLong(tracks, autoqueue) == autoqueue /\ Len(tracks) > 1

\* the fetch starts only for autoqueue with a single track
SetQueueFetches(tracks, autoqueue) == autoqueue /\ Len(tracks) = 1

SetQueue(tracks, startIndex, autoqueue) ==
    /\ queue' = tracks
    /\ currentQueueIndex' = SetQueueIndex(startIndex)
    /\ shuffleActive' = SetQueueShuffle
    /\ smartShuffleActive' = SetQueueShuffle
    /\ autoqueueEnabled' = autoqueue
    /\ autoqueueSeeds' = SetQueueSeeds(tracks, autoqueue)
    /\ preloadCache' = {}
    /\ UNCHANGED <<shuffledQueue, originalQueueBeforeShuffle, repeatMode>>
    /\ saveQueueState
    /\ IF SetQueueFetches(tracks, autoqueue)
       THEN fetchAutoqueueRecommendations(FALSE)
       ELSE autoqueueLoading' = FALSE /\ UNCHANGED fetches
    /\ UNCHANGED <<currentTrack, audioTime, smartTasks, preloads, plays>>
    /\ lastOp' = [name |-> "setQueue", track |-> NoTrack,
                  args |-> <<tracks, startIndex, autoqueue>>]
    /\ UNCHANGED sleepVars
    /\ EndCycle

\* ---------------------------------------------------------------- addToQueue
\* this.queue.push(track): the list the track is pushed on is the base queue
AddToQueueBase(q, t) == Append(q, t)

\* if (!this.currentTrack || this.currentQueueIndex === -1)
NothingLoaded == currentTrack = NoTrack \/ currentQueueIndex = -1

AddToQueue(t) ==
    /\ Len(queue) < MaxLen
    /\ queue' = AddToQueueBase(queue, t)
    /\ UNCHANGED <<shuffledQueue, originalQueueBeforeShuffle, shuffleActive,
                   smartShuffleActive, repeatMode, autoqueueEnabled,
                   autoqueueLoading, autoqueueSeeds, preloadCache, audioTime,
                   smartTasks, preloads, fetches>>
    /\ IF NothingLoaded
       THEN /\ currentQueueIndex' = Len(queue') - 1
            /\ playTrackFromQueue
       ELSE UNCHANGED <<currentQueueIndex, currentTrack, plays>>
    /\ saveQueueState
    /\ Op("addToQueue")
    /\ EndCycle

\* ------------------------------------------------------------ addNextToQueue
\* const insertIndex = this.currentQueueIndex + 1
InsertIndex(idx) == idx + 1

AddNextToQueue(t) ==
    /\ Len(ActiveQueue) < MaxLen
    /\ shuffleActive => Len(originalQueueBeforeShuffle) < MaxLen
    /\ IF shuffleActive
       THEN /\ shuffledQueue' = SpliceIn(shuffledQueue, InsertIndex(currentQueueIndex), t)
            /\ originalQueueBeforeShuffle' = Append(originalQueueBeforeShuffle, t)
            /\ UNCHANGED queue
       ELSE /\ queue' = SpliceIn(queue, InsertIndex(currentQueueIndex), t)
            /\ UNCHANGED <<shuffledQueue, originalQueueBeforeShuffle>>
    /\ UNCHANGED <<currentQueueIndex, shuffleActive, smartShuffleActive, repeatMode,
                   currentTrack, autoqueueEnabled, autoqueueLoading, autoqueueSeeds,
                   preloadCache, audioTime, smartTasks, fetches, plays>>
    /\ saveQueueState
    /\ preloadNextTracks
    /\ lastOp' = [name |-> "addNextToQueue", track |-> t, args |-> <<>>]
    /\ UNCHANGED sleepVars
    /\ EndCycle

\* ----------------------------------------------------------- removeFromQueue
\* a faulty variant that never shifts the index
RemoveIndexNoShift(idx, index) == idx

\* if (index < this.currentQueueIndex) this.currentQueueIndex--
RemoveIndex(idx, index) == IF index < idx THEN idx - 1 ELSE idx

\* a faulty variant that leaves the original queue as it is
RemoveFromOriginalKept(oq, removedTrack) == oq

\* the original queue without the first track whose id is the removed one's
RemoveFromOriginal(oq, removedTrack) ==
    LET originalIndex == FindIndex(oq, removedTrack)
    IN  IF originalIndex # -1 THEN SpliceOut(oq, originalIndex) ELSE oq

\* index is a position of the active queue
RemoveFromQueue(index) ==
    /\ index >= 0 /\ index < Len(ActiveQueue)
    /\ currentQueueIndex' = RemoveIndex(currentQueueIndex, index)
    /\ IF shuffleActive
       THEN /\ shuffledQueue' = SpliceOut(shuffledQueue, index)
            /\ originalQueueBeforeShuffle' =
                   RemoveFromOriginal(originalQueueBeforeShuffle, At(shuffledQueue, index))
            /\ UNCHANGED queue
       ELSE /\ queue' = SpliceOut(queue, index)
            /\ UNCHANGED <<shuffledQueue, originalQueueBeforeShuffle>>
    /\ UNCHANGED <<shuffleActive, smartShuffleActive, repeatMode, currentTrack,
                   autoqueueEnabled, autoqueueLoading, autoqueueSeeds, preloadCache,
                   audioTime, smartTasks, fetches, plays>>
    /\ saveQueueState
    /\ preloadNextTracks
    /\ lastOp' = [name |-> "removeFromQueue", track |-> NoTrack,
                  args |-> IF index = currentQueueIndex
                           THEN <<At(ActiveQueue, index + 1)>> ELSE <<>>]
    /\ UNCHANGED sleepVars
    /\ EndCycle

\* removeFromQueue(index) with an index that is no position of the active
\* queue.  The index is adjusted first; splice removes the track at the
\* position it starts from, if there is one; in shuffle mode reading
\* removedTrack.id of an undefined removedTrack throws, which skips the rest
RemoveOutside(index) ==
    /\ index < 0 \/ index >= Len(ActiveQueue)
    /\ LET start == SpliceStart(ActiveQueue, index)
           removedTrack == At(ActiveQueue, start)
           threw == shuffleActive /\ removedTrack = NoTrack
       IN  /\ currentQueueIndex' = RemoveIndex(currentQueueIndex, index)
           /\ IF shuffleActive
              THEN /\ shuffledQueue' = SpliceOut(shuffledQueue, start)
                   /\ originalQueueBeforeShuffle' =
                          IF threw THEN originalQueueBeforeShuffle
                          ELSE RemoveFromOriginal(originalQueueBeforeShuffle, removedTrack)
                   /\ UNCHANGED queue
              ELSE /\ queue' = SpliceOut(queue, start)
                   /\ UNCHANGED <<shuffledQueue, originalQueueBeforeShuffle>>
           /\ UNCHANGED <<shuffleActive, smartShuffleActive, repeatMode, currentTrack,
                          autoqueueEnabled, autoqueueLoading, autoqueueSeeds,
                          preloadCache, audioTime, smartTasks, fetches, plays>>
           /\ IF threw THEN UNCHANGED <<saved, preloads>>
              ELSE saveQueueState /\ preloadNextTracks
           /\ Op(IF threw THEN "removeOutsideThrew" ELSE "removeOutside")
    /\ EndCycle

\* ---------------------------------------------------------------- clearQueue
\* a faulty variant that keeps the shuffled order in all three lists
ClearedListKept == shuffledQueue

\* this.queue = []; this.shuffledQueue = []; this.originalQueueBeforeShuffle = []
ClearedList == <<>>

\* this.currentQueueIndex = -1
ClearedIndex == -1

ClearQueue ==
    /\ queue' = ClearedList
    /\ shuffledQueue' = ClearedList
    /\ originalQueueBeforeShuffle' = ClearedList
    /\ currentQueueIndex' = ClearedIndex
    /\ preloadCache' = {}
    /\ UNCHANGED <<shuffleActive, smartShuffleActive, repeatMode, currentTrack,
                   autoqueueEnabled, autoqueueLoading, autoqueueSeeds, audioTime,
                   smartTasks, preloads, fetches, plays>>
    /\ saveQueueState
    /\ Op("clearQueue")
    /\ EndCycle

\* --------------------------------------------------------------- moveInQueue
\* const [track] = q.splice(fromIndex, 1); q.splice(toIndex, 0, track)
MoveList(q, fromIndex, toIndex) ==
    SpliceIn(SpliceOut(q, fromIndex), toIndex, At(q, fromIndex))

\* a faulty variant whose second test reads toIndex > currentQueueIndex
MoveIndexStrict(idx, fromIndex, toIndex) ==
    IF idx = fromIndex THEN toIndex
    ELSE IF fromIndex < idx /\ toIndex > idx THEN idx - 1
    ELSE IF fromIndex > idx /\ toIndex <= idx THEN idx + 1
    ELSE idx

\* the three-way adjustment of currentQueueIndex
MoveIndex(idx, fromIndex, toIndex) ==
    IF idx = fromIndex THEN toIndex
    ELSE IF fromIndex < idx /\ toIndex >= idx THEN idx - 1
    ELSE IF fromIndex > idx /\ toIndex <= idx THEN idx + 1
    ELSE idx

\* a position outside the active queue returns before anything is changed
MoveInQueue(fromIndex, toIndex) ==
    /\ IF \/ fromIndex < 0 \/ fromIndex >= Len(ActiveQueue)
          \/ toIndex < 0 \/ toIndex >= Len(ActiveQueue)
       THEN UNCHANGED <<queue, shuffledQueue, currentQueueIndex, saved>>
       ELSE /\ IF shuffleActive
               THEN /\ shuffledQueue' = MoveList(shuffledQueue, fromIndex, toIndex)
                    /\ UNCHANGED queue
               ELSE /\ queue' = MoveList(queue, fromIndex, toIndex)
                    /\ UNCHANGED shuffledQueue
            /\ currentQueueIndex' = MoveIndex(currentQueueIndex, fromIndex, toIndex)
    /\ UNCHANGED <<originalQueueBeforeShuffle, shuffleActive, smartShuffleActive,
                   repeatMode, currentTrack, autoqueueEnabled, autoqueueLoading,
                   autoqueueSeeds, preloadCache, audioTime, smartTasks, preloads,
                   fetches, plays>>
    /\ IF \/ fromIndex < 0 \/ fromIndex >= Len(ActiveQueue)
          \/ toIndex < 0 \/ toIndex >= Len(ActiveQueue)
       THEN TRUE
       ELSE saveQueueState
    /\ Op(IF \/ fromIndex < 0 \/ fromIndex >= Len(ActiveQueue)
             \/ toIndex < 0 \/ toIndex >= Len(ActiveQueue)
          THEN "moveInQueueIgnored" ELSE "moveInQueue")
    /\ EndCycle
\* -------------------------------------------------------------- toggleShuffle
\* const currentTrack = this.queue[this.currentQueueIndex]
PlayingInBase(q, idx) == At(q, idx)

\* a faulty variant that leaves the playing track among the tracks to sort
TracksToShuffleKeepsCurrent(q, idx) == q

\* tracksToShuffle: the base queue without the playing position
TracksToShuffle(q, idx) ==
    IF PlayingInBase(q, idx) # NoTrack /\ idx >= 0 THEN SpliceOut(q, idx) ELSE q

\* this.shuffledQueue = currentTrack ? [currentTrack, ...tracksToShuffle] : tracksToShuffle
ShuffledFrom(cur, sorted) == IF cur # NoTrack THEN <<cur>> \o sorted ELSE sorted

\* this.currentQueueIndex = currentTrack ? 0 : -1
ShuffledIndex(cur) == IF cur # NoTrack THEN 0 ELSE -1

\* this.originalQueueBeforeShuffle = [...this.queue]
SnapshotOf(q) == q

\* this.queue = [...this.originalQueueBeforeShuffle]
RestoredFrom(oq) == oq

\* a faulty variant that keeps the position the track had in the shuffled order
RestoredIndexKept(q, cur) == currentQueueIndex

\* this.queue.findIndex((t) => t.id === currentTrack?.id)
RestoredIndex(q, cur) == FindIndex(q, cur)

\* the tail of toggleShuffle: preloadCache.clear(); preloadNextTracks(); saveQueueState()
toggleShuffleTail ==
    /\ preloadCache' = {}
    /\ preloadNextTracks
    /\ saveQueueState

\* a faulty variant whose second test forgets !smartShuffleActive
ToggleBranchStuck(sh, sm) ==
    IF ~sh /\ ~sm THEN "on" ELSE IF sh THEN "smart" ELSE "off"

\* the branch toggleShuffle takes: if (!shuffleActive && !smartShuffleActive),
\* else if (shuffleActive && !smartShuffleActive), else
ToggleBranch(sh, sm) ==
    IF ~sh /\ ~sm THEN "on" ELSE IF sh /\ ~sm THEN "smart" ELSE "off"

\* OFF -> SHUFFLE
ToggleShuffleOn ==
    /\ ToggleBranch(shuffleActive, smartShuffleActive) = "on"
    /\ LET cur == PlayingInBase(queue, currentQueueIndex)
       IN  /\ \E sorted \in SortOutcomes(TracksToShuffle(queue, currentQueueIndex)) :
                 shuffledQueue' = ShuffledFrom(cur, sorted)
           /\ currentQueueIndex' = ShuffledIndex(cur)
           /\ cycle' = IF cur # NoTrack /\ currentTrack = cur
                       THEN [phase |-> "on", q |-> queue, idx |-> currentQueueIndex]
                       ELSE NoCycle
    /\ shuffleActive' = TRUE
    /\ smartShuffleActive' = FALSE
    /\ originalQueueBeforeShuffle' = SnapshotOf(queue)
    /\ UNCHANGED <<queue, repeatMode, currentTrack, autoqueueEnabled, autoqueueLoading,
                   autoqueueSeeds, audioTime, smartTasks, fetches, plays>>
    /\ toggleShuffleTail
    /\ Op("toggleShuffle")

\* SHUFFLE -> SMART SHUFFLE, up to the first await of enableSmartShuffle
ToggleShuffleSmart ==
    /\ ToggleBranch(shuffleActive, smartShuffleActive) = "smart"
    /\ Len(smartTasks) < MaxSmartTasks
    /\ smartShuffleActive' = TRUE
    /\ smartTasks' = Append(smartTasks,
                            [kind |-> "toggle", pc |-> "history", ctx |-> {},
                             left |-> 0, added |-> 0])
    /\ UNCHANGED <<queue, shuffledQueue, originalQueueBeforeShuffle, currentQueueIndex,
                   shuffleActive, repeatMode, currentTrack, autoqueueEnabled,
                   autoqueueLoading, autoqueueSeeds, preloadCache, audioTime, saved,
                   preloads, fetches, plays, cycle>>
    /\ Op("toggleShuffle")

\* the else branch: SMART -> OFF
ToggleShuffleOff ==
    /\ ToggleBranch(shuffleActive, smartShuffleActive) = "off"
    /\ shuffleActive' = FALSE
    /\ smartShuffleActive' = FALSE
    /\ queue' = RestoredFrom(originalQueueBeforeShuffle)
    /\ currentQueueIndex' = RestoredIndex(queue', At(shuffledQueue, currentQueueIndex))
    /\ UNCHANGED <<shuffledQueue, originalQueueBeforeShuffle, repeatMode, currentTrack,
                   autoqueueEnabled, autoqueueLoading, autoqueueSeeds, audioTime,
                   smartTasks, fetches, plays>>
    /\ toggleShuffleTail
    /\ cycle' = IF cycle.phase = "on" THEN [cycle EXCEPT !.phase = "done"] ELSE NoCycle
    /\ Op("toggleShuffle")

ToggleShuffle == ToggleShuffleOn \/ ToggleShuffleSmart \/ ToggleShuffleOff

\* --------------------------------------------------------- enableSmartShuffle
DropTask(tasks, k) == [j \in 1..(Len(tasks) - 1) |-> IF j < k THEN tasks[j] ELSE tasks[j + 1]]

\* const currentQueue = this.shuffledQueue.length > 0 ? this.shuffledQueue : this.queue
\* const contextTracks = currentQueue.slice(currentQueueIndex + 1, currentQueueIndex + 21)
ContextTracks(q, sq, idx) ==
    Slice(IF Len(sq) > 0 THEN sq ELSE q, idx + 1, idx + 1 + SmartContextSpan)

\* isDuplicate: in contextTracks, or the current track
IsDuplicate(ctx, cur, t) == t \in ctx \/ (cur # NoTrack /\ cur = t)

\* insertIndex = currentQueueIndex + insertOffset + addedCount
SmartInsertIndex(idx, insertOffset, addedCount) == idx + insertOffset + addedCount

\* splice at insertIndex when it is inside the shuffled queue, push otherwise
SmartInsert(sq, insertIndex, t) ==
    IF insertIndex < Len(sq) THEN SpliceIn(sq, insertIndex, t) ELSE Append(sq, t)

\* a faulty variant of the catch block that forgets the smart flag
CaughtSmartKept == smartShuffleActive

\* catch (error): this.smartShuffleActive = false
CaughtSmart == FALSE

\* what one resumed step of enableSmartShuffle leaves behind.  res is "park"
\* (awaiting again), "ok" (the call returned) or "fail" (it threw).  A
\* toggleShuffle caller catches the throw, turns both flags off and runs its
\* tail; startSmartShuffle saves on return and lets a throw escape.
SmartStep(k, res, task2, sq2) ==
    LET kind == smartTasks[k].kind
    IN  /\ shuffledQueue' = sq2
        /\ smartTasks' = IF res = "park" THEN [smartTasks EXCEPT ![k] = task2]
                         ELSE DropTask(smartTasks, k)
        /\ IF res = "fail" /\ kind = "toggle"
           THEN shuffleActive' = FALSE /\ smartShuffleActive' = CaughtSmart
           ELSE UNCHANGED <<shuffleActive, smartShuffleActive>>
        /\ UNCHANGED <<queue, originalQueueBeforeShuffle, currentQueueIndex, repeatMode,
                       currentTrack, autoqueueEnabled, autoqueueLoading, autoqueueSeeds,
                       audioTime, fetches, plays>>
        /\ IF res # "park" /\ kind = "toggle" THEN toggleShuffleTail
           ELSE IF res = "ok" THEN UNCHANGED <<preloadCache, preloads>> /\ saveQueueState
           ELSE UNCHANGED <<preloadCache, preloads, saved>>
        /\ cycle' = IF res = "fail" /\ kind = "toggle" /\ cycle.phase = "on"
                    THEN [cycle EXCEPT !.phase = "done"]
                    ELSE IF res = "fail" /\ kind = "toggle" THEN NoCycle
                    ELSE cycle
        /\ Op(IF res = "park" THEN "smartAwaits"
              ELSE IF res = "ok" THEN "smartReturned"
              ELSE IF kind = "toggle" THEN "smartThrew" ELSE "startThrew")

\* await db.getHistory() resumes: it threw, or it returned a history that is
\* empty or not; with no history and no context the call returns, otherwise
\* getRecommendations is awaited (it throws at once without an API key)
SmartHistory(k) ==
    /\ smartTasks[k].pc = "history"
    /\ \/ SmartStep(k, "fail", smartTasks[k], shuffledQueue)
       \/ \E historyEmpty \in BOOLEAN :
            LET ctx == ContextTracks(queue, shuffledQueue, currentQueueIndex)
            IN  IF historyEmpty /\ ctx = <<>>
                THEN SmartStep(k, "ok", smartTasks[k], shuffledQueue)
                ELSE SmartStep(k, "park",
                               [smartTasks[k] EXCEPT !.pc = "recs", !.ctx = Ids(ctx)],
                               shuffledQueue)

\* await getRecommendations() resumes: it threw, or returned n recommendations,
\* at most as many as the service gives
SmartRecsUpTo(k, most) ==
    /\ smartTasks[k].pc = "recs"
    /\ \/ SmartStep(k, "fail", smartTasks[k], shuffledQueue)
       \/ \E n \in 0..most :
            IF n = 0
            THEN SmartStep(k, "ok", smartTasks[k], shuffledQueue)
            ELSE SmartStep(k, "park", [smartTasks[k] EXCEPT !.pc = "search", !.left = n],
                           shuffledQueue)

SmartRecs(k) == SmartRecsUpTo(k, MaxRecs)

\* await searchTracks() resumes for one recommendation: nothing found (or it
\* threw, which the loop catches), or a track that is injected unless
\* duplicate, as long as the shuffled queue holds fewer than room tracks
SmartSearchWithin(k, room) ==
    /\ smartTasks[k].pc = "search"
    /\ LET task == smartTasks[k]
           res == IF task.left = 1 THEN "ok" ELSE "park"
       IN  \/ SmartStep(k, res, [task EXCEPT !.left = task.left - 1], shuffledQueue)
           \/ \E t \in RemoteIds :
                IF IsDuplicate(task.ctx, currentTrack, t)
                THEN SmartStep(k, res, [task EXCEPT !.left = task.left - 1], shuffledQueue)
                ELSE /\ Len(shuffledQueue) < room
                     /\ \E insertOffset \in 1..SmartInsertSpread :
                          SmartStep(k, res,
                                    [task EXCEPT !.left = task.left - 1,
                                                 !.added = task.added + 1],
                                    SmartInsert(shuffledQueue,
                                                SmartInsertIndex(currentQueueIndex,
                                                                 insertOffset, task.added),
                                                t))

SmartSearch(k) == SmartSearchWithin(k, MaxLen)

\* --------------------------------------------------------- startSmartShuffle
\* the Fisher-Yates loop can leave any order of the queue
FisherYates(q) == SortOutcomes(q)

\* startSmartShuffle(tracks) up to the first await of enableSmartShuffle:
\* setQueue(tracks, 0), which saves, then the shuffle state set by hand.  The
\* observed cycle holds the tracks given until another handler ends it.
StartSmartShuffle(tracks) ==
    /\ Len(smartTasks) < MaxSmartTasks
    /\ queue' = tracks
    /\ autoqueueEnabled' = FALSE
    /\ autoqueueLoading' = FALSE
    /\ autoqueueSeeds' = SetQueueSeeds(tracks, FALSE)
    /\ preloadCache' = {}
    /\ saved' = SessionOf(tracks, shuffledQueue, originalQueueBeforeShuffle,
                          SetQueueIndex(0), SetQueueShuffle, SetQueueShuffle,
                          repeatMode, FALSE, SetQueueSeeds(tracks, FALSE))
    /\ shuffleActive' = TRUE
    /\ smartShuffleActive' = TRUE
    /\ originalQueueBeforeShuffle' = SnapshotOf(tracks)
    /\ shuffledQueue' \in FisherYates(tracks)
    /\ currentQueueIndex' = 0
    /\ smartTasks' = Append(smartTasks,
                            [kind |-> "start", pc |-> "history", ctx |-> {},
                             left |-> 0, added |-> 0])
    /\ UNCHANGED <<repeatMode, currentTrack, audioTime, preloads, fetches, plays>>
    /\ Op("startSmartShuffle")
    /\ cycle' = [phase |-> "start", q |-> tracks, idx |-> 0]

\* ---------------------------------------------------------------- transport
\* playTrackFromQueue() as the transport handlers call it: it saves the
\* session once it is past the early return
playTrackFromQueueSaving ==
    /\ playTrackFromQueue
    /\ IF currentQueueIndex' >= 0
          /\ currentQueueIndex' < Len(ActiveOf(shuffleActive', queue', shuffledQueue'))
       THEN saveQueueState
       ELSE UNCHANGED saved

\* a caller (handlePlayPause, or the page after setQueue) plays the current index
PlayTrackFromQueue ==
    /\ UNCHANGED <<queue, shuffledQueue, originalQueueBeforeShuffle, currentQueueIndex,
                   shuffleActive, smartShuffleActive, repeatMode, autoqueueEnabled,
                   autoqueueLoading, autoqueueSeeds, preloadCache, audioTime,
                   smartTasks, preloads, fetches>>
    /\ playTrackFromQueueSaving
    /\ Op("playTrackFromQueue")
    /\ EndCycle

\* if (index >= 0 && index < currentQueue.length)
PlayAtIndexValid(aq, index) == index >= 0 /\ index < Len(aq)

PlayAtIndex(index) ==
    /\ IF PlayAtIndexValid(ActiveQueue, index)
       THEN /\ currentQueueIndex' = index
            /\ UNCHANGED <<queue, shuffledQueue, shuffleActive, repeatMode,
                           autoqueueEnabled, autoqueueSeeds, smartShuffleActive,
                           originalQueueBeforeShuffle>>
            /\ playTrackFromQueueSaving
       ELSE UNCHANGED <<queue, shuffledQueue, shuffleActive, repeatMode,
                        autoqueueEnabled, autoqueueSeeds, smartShuffleActive,
                        originalQueueBeforeShuffle, currentQueueIndex, currentTrack,
                        plays, saved>>
    /\ UNCHANGED <<autoqueueLoading, preloadCache, audioTime, smartTasks, preloads,
                   fetches>>
    /\ OpFrom("playAtIndex", PlayAtIndexValid(ActiveQueue, index))
    /\ EndCycle

\* const isLastTrack = this.currentQueueIndex >= currentQueue.length - 1
IsLastTrack(aq, idx) == idx >= Len(aq) - 1

\* const isNearEnd = this.currentQueueIndex >= currentQueue.length - 3
IsNearEnd(aq, idx) == idx >= Len(aq) - NearEndDistance

\* a faulty variant that wraps to the first track in every repeat mode
NextIndexWraps(aq, idx, rm) == IF ~IsLastTrack(aq, idx) THEN idx + 1 ELSE 0

\* the index playNext moves to; the same index when it returns without moving
NextIndex(aq, idx, rm) ==
    IF ~IsLastTrack(aq, idx) THEN idx + 1
    ELSE IF rm = REPEAT_ALL THEN 0
    ELSE idx

\* playNext goes on to playTrackFromQueue
NextPlays(aq, idx, rm) == ~IsLastTrack(aq, idx) \/ rm = REPEAT_ALL

\* a faulty variant that takes the restart branch in repeat ALL
RestartsCurrentInAll(rm) == rm = REPEAT_ALL

\* if (this.repeatMode === REPEAT_MODE.ONE)
RestartsCurrent(rm) == rm = REPEAT_ONE

PlayNext ==
    /\ UNCHANGED <<queue, shuffledQueue, originalQueueBeforeShuffle, shuffleActive,
                   smartShuffleActive, repeatMode, autoqueueEnabled, autoqueueSeeds,
                   preloadCache, smartTasks, preloads>>
    /\ IF RestartsCurrent(repeatMode)
       THEN /\ audioTime' = 0
            /\ UNCHANGED <<currentQueueIndex, currentTrack, autoqueueLoading, fetches,
                           plays, saved>>
       ELSE /\ UNCHANGED audioTime
            /\ IF autoqueueEnabled /\ IsNearEnd(ActiveQueue, currentQueueIndex)
                  /\ ~autoqueueLoading
               THEN fetchAutoqueueRecommendations(autoqueueLoading)
               ELSE UNCHANGED <<autoqueueLoading, fetches>>
            /\ currentQueueIndex' = NextIndex(ActiveQueue, currentQueueIndex, repeatMode)
            /\ IF NextPlays(ActiveQueue, currentQueueIndex, repeatMode)
               THEN playTrackFromQueueSaving
               ELSE UNCHANGED <<currentTrack, plays, saved>>
    /\ OpFrom("playNext", /\ ~RestartsCurrent(repeatMode)
                           /\ NextPlays(ActiveQueue, currentQueueIndex, repeatMode)
                           /\ currentQueueIndex' < Len(ActiveQueue))
    /\ EndCycle

\* a faulty variant that restarts within the first seconds instead
PrevRestartsEarly(time) == time <= PrevRestartSeconds

\* if (this.audio.currentTime > 3)
PrevRestarts(time) == time > PrevRestartSeconds

PlayPrev ==
    /\ UNCHANGED <<queue, shuffledQueue, originalQueueBeforeShuffle, shuffleActive,
                   smartShuffleActive, repeatMode, autoqueueEnabled, autoqueueLoading,
                   autoqueueSeeds, preloadCache, smartTasks, preloads, fetches>>
    /\ IF PrevRestarts(audioTime)
       THEN /\ audioTime' = 0
            /\ UNCHANGED <<currentQueueIndex, currentTrack, plays, saved>>
       ELSE IF currentQueueIndex > 0
       THEN /\ currentQueueIndex' = currentQueueIndex - 1
            /\ UNCHANGED audioTime
            /\ playTrackFromQueueSaving
       ELSE UNCHANGED <<audioTime, currentQueueIndex, currentTrack, plays, saved>>
    /\ OpFrom("playPrev", /\ ~PrevRestarts(audioTime)
                           /\ currentQueueIndex > 0
                           /\ currentQueueIndex' < Len(ActiveQueue))
    /\ EndCycle

\* a parked playTrackFromQueue resumes: the track was resolved and started
\* (a new source plays from 0, then preloadNextTracks()), or resolving or
\* starting threw, which is caught and logged
PlayStarted ==
    /\ plays > 0
    /\ plays' = plays - 1
    /\ UNCHANGED <<queue, shuffledQueue, originalQueueBeforeShuffle, currentQueueIndex,
                   shuffleActive, smartShuffleActive, repeatMode, currentTrack,
                   autoqueueEnabled, autoqueueLoading, autoqueueSeeds, preloadCache,
                   saved, smartTasks, fetches, cycle>>
    /\ \/ /\ audioTime' = 0
          /\ preloadNextTracks
          /\ Op("playStarted")
       \/ /\ UNCHANGED <<audioTime, preloads>>
          /\ Op("playFailed")

\* a second of playback passes
Tick ==
    /\ currentTrack # NoTrack
    /\ audioTime < MaxTime
    /\ audioTime' = audioTime + 1
    /\ UNCHANGED <<queue, shuffledQueue, originalQueueBeforeShuffle, currentQueueIndex,
                   shuffleActive, smartShuffleActive, repeatMode, currentTrack,
                   autoqueueEnabled, autoqueueLoading, autoqueueSeeds, preloadCache,
                   saved, smartTasks, preloads, fetches, plays, cycle>>
    /\ Op("tick")

\* this.repeatMode = (this.repeatMode + 1) % 3
NextRepeat(rm) == (rm + 1) % RepeatModulus

ToggleRepeat ==
    /\ repeatMode' = NextRepeat(repeatMode)
    /\ UNCHANGED <<queue, shuffledQueue, originalQueueBeforeShuffle, currentQueueIndex,
                   shuffleActive, smartShuffleActive, currentTrack, autoqueueEnabled,
                   autoqueueLoading, autoqueueSeeds, preloadCache, audioTime,
                   smartTasks, preloads, fetches, plays, cycle>>
    /\ saveQueueState
    /\ Op("toggleRepeat")

\* ------------------------------------------------- preloadNextTracks, resumed
\* if (this.preloadAbortController.signal.aborted) break: the test reads the
\* field, which holds the controller of the latest call, and that one has
\* not been aborted, whatever became of the controller of the run's own call
AbortSeen(run) == FALSE

\* await getStreamUrl() resumes in run k: with no abort seen the url is
\* cached; a throw is caught and the loop goes on.  Either way the loop runs
\* to its next await or to its end.
PreloadResolve(k) ==
    /\ LET t == Head(preloads[k].todo)
       IN  \E resolved \in BOOLEAN :
             IF resolved /\ AbortSeen(preloads[k])
             THEN /\ UNCHANGED preloadCache
                  /\ preloads' = DropTask(preloads, k)
                  /\ Op("preloadAborted")
             ELSE /\ preloadCache' = IF resolved THEN preloadCache \cup {t}
                                     ELSE preloadCache
                  /\ LET todo == SkipCached(Tail(preloads[k].todo), preloadCache')
                     IN  preloads' = IF todo = <<>> THEN DropTask(preloads, k)
                                     ELSE [preloads EXCEPT ![k].todo = todo]
                  /\ Op("preloadResolve")
    /\ UNCHANGED <<queue, shuffledQueue, originalQueueBeforeShuffle, currentQueueIndex,
                   shuffleActive, smartShuffleActive, repeatMode, currentTrack,
                   autoqueueEnabled, autoqueueLoading, autoqueueSeeds, audioTime,
                   saved, smartTasks, fetches, plays, cycle>>

\* ------------------------------------- fetchAutoqueueRecommendations, resumed
RECURSIVE FilterNew(_, _)
\* recommendations.filter(track => !existingIds.has(track.id))
FilterNew(recommendations, existingIds) ==
    IF recommendations = <<>> THEN <<>>
    ELSE IF Head(recommendations) \in existingIds
         THEN FilterNew(Tail(recommendations), existingIds)
         ELSE <<Head(recommendations)>> \o FilterNew(Tail(recommendations), existingIds)

\* [this.currentTrack, ...newTracks.slice(0, 3)].filter(Boolean)
Reseed(cur, newTracks) ==
    (IF cur # NoTrack THEN <<cur>> ELSE <<>>) \o Slice(newTracks, 0, SeedTake)

\* the answers getRecommendedTracksForPlaylist can give
Recommendations == UNION {[1..n -> RemoteIds] : n \in 0..MaxFetchRecs}

\* a faulty variant without the finally block: the flag stays as the call set it
FetchLoadingKept == autoqueueLoading

\* finally { this.autoqueueLoading = false }
FetchLoading == FALSE

\* catch (error): the error is logged and nothing else is done
FetchThrew ==
    /\ UNCHANGED <<queue, autoqueueSeeds, saved, preloads>>
    /\ Op("fetchComplete")

\* the awaits of one fetch resume (history and favourites change nothing the
\* model holds, so the call is resumed once, with the recommendations): it
\* threw, or it returned a list; finally always clears autoqueueLoading
FetchComplete ==
    /\ fetches > 0
    /\ fetches' = fetches - 1
    /\ autoqueueLoading' = FetchLoading
    /\ UNCHANGED <<shuffledQueue, originalQueueBeforeShuffle, currentQueueIndex,
                   shuffleActive, smartShuffleActive, repeatMode, currentTrack,
                   autoqueueEnabled, preloadCache, audioTime, smartTasks, plays>>
    /\ \/ FetchThrew
       \/ \E recommendations \in Recommendations :
            IF recommendations = <<>>
            THEN /\ UNCHANGED <<queue, autoqueueSeeds, saved, preloads>>
                 /\ Op("fetchComplete")
            ELSE LET newTracks == FilterNew(recommendations, Ids(ActiveQueue))
                 IN  /\ Len(queue) + Len(newTracks) <= MaxLen
                     /\ queue' = queue \o newTracks
                     /\ autoqueueSeeds' = IF Len(newTracks) > 0
                                          THEN Reseed(currentTrack, newTracks)
                                          ELSE autoqueueSeeds
                     /\ saveQueueState
                     /\ preloadNextTracks
                     /\ Op("fetchComplete")
    /\ EndCycle

\* --------------------------------------------------------------- sleep timer
\* everything but the sleep timer
playerVars ==
    <<queue, shuffledQueue, originalQueueBeforeShuffle, currentQueueIndex,
      shuffleActive, smartShuffleActive, repeatMode, currentTrack, autoqueueEnabled,
      autoqueueLoading, autoqueueSeeds, preloadCache, audioTime, saved, smartTasks,
      preloads, fetches, plays, cycle>>

\* a faulty variant that leaves the old timeout with the browser
ClearedTimeoutsKept(pending, handle) == pending

\* clearTimeout(this.sleepTimer)
ClearedTimeouts(pending, handle) == {t \in pending : t.id # handle}

\* what clearSleepTimer() leaves of the pending timeouts
AfterClear(pending) ==
    IF sleepTimer # NoTimer THEN ClearedTimeouts(pending, sleepTimer) ELSE pending

\* setSleepTimer(minutes): clearSleepTimer(), then the new deadline and timeout
SetSleepTimer(minutes) ==
    /\ timersSet < MaxTimers
    /\ now + minutes <= MaxNow
    /\ timersSet' = timersSet + 1
    /\ sleepTimerEndTime' = now + minutes
    /\ sleepTimer' = timersSet + 1
    /\ timeouts' = AfterClear(timeouts) \cup {[id |-> timersSet + 1, at |-> now + minutes]}
    /\ UNCHANGED <<now, pauses>>
    /\ UNCHANGED playerVars
    /\ lastOp' = [name |-> "setSleepTimer", track |-> NoTrack,
                  args |-> <<sleepTimerEndTime>>]

ClearSleepTimer ==
    /\ timeouts' = AfterClear(timeouts)
    /\ sleepTimer' = NoTimer
    /\ sleepTimerEndTime' = NoTimer
    /\ UNCHANGED <<timersSet, now, pauses>>
    /\ UNCHANGED playerVars
    /\ lastOp' = [name |-> "clearSleepTimer", track |-> NoTrack, args |-> <<>>]

\* the browser runs the callback of a timeout that is due: this.audio.pause(),
\* then clearSleepTimer()
SleepTimerFires(t) ==
    /\ t \in timeouts
    /\ t.at <= now
    /\ pauses' = pauses + 1
    /\ timeouts' = AfterClear(timeouts \ {t})
    /\ sleepTimer' = NoTimer
    /\ sleepTimerEndTime' = NoTimer
    /\ UNCHANGED <<timersSet, now>>
    /\ UNCHANGED playerVars
    /\ lastOp' = [name |-> "sleepTimerFired", track |-> NoTrack,
                  args |-> IF lastOp.name = "setSleepTimer" THEN lastOp.args ELSE <<>>]

\* a minute passes; a timeout that is due runs before the clock moves on
PassMinute ==
    /\ now < MaxNow
    /\ \A t \in timeouts : t.at > now
    /\ now' = now + 1
    /\ UNCHANGED <<sleepTimer, sleepTimerEndTime, timeouts, timersSet, pauses>>
    /\ UNCHANGED playerVars
    /\ UNCHANGED lastOp

\* ------------------------------------------------------------ loadQueueState
\* the fields of the object queueManager.saveQueue stores
SessionFields ==
    {"queue", "shuffledQueue", "originalQueueBeforeShuffle", "currentQueueIndex",
     "shuffleActive", "smartShuffleActive", "repeatMode", "autoqueueEnabled",
     "autoqueueSeeds"}

\* what queueManager.getQueue() returns: the stored session, the fields in
\* absent missing from it (an object stored by an older version; a null
\* answer leaves the constructor's values like an object with no field)
SavedState(absent) ==
    [f \in SessionFields |-> [present |-> f \notin absent, value |-> saved[f]]]

\* the sets of fields a stored session can lack
AbsentSets ==
    {absent \in SUBSET SessionFields : Cardinality(absent) <= MaxAbsent}
        \cup {SessionFields}

\* savedState.queue || []: an array is truthy, undefined is not
LoadedList(field) == IF field.present THEN field.value ELSE <<>>

\* a faulty variant that reads the index with || : an index of 0 is falsy
LoadedIndexFalsy(field) == IF field.present /\ field.value # 0 THEN field.value ELSE -1

\* savedState.currentQueueIndex ?? -1
LoadedIndex(field) == IF field.present THEN field.value ELSE -1

\* savedState.shuffleActive || false
LoadedFlag(field) == IF field.present /\ field.value THEN field.value ELSE FALSE

\* savedState.repeatMode || REPEAT_MODE.OFF: the number 0 is falsy
LoadedRepeat(field) == IF field.present /\ field.value # 0 THEN field.value ELSE REPEAT_OFF

\* the page is loaded again: a new Player is constructed, whose constructor
\* ends in loadQueueState(); nothing of the old page's tasks survives, and
\* nothing is played or saved
LoadQueueState(absent) ==
    LET savedState == SavedState(absent)
    IN  /\ queue' = LoadedList(savedState["queue"])
        /\ shuffledQueue' = LoadedList(savedState["shuffledQueue"])
        /\ originalQueueBeforeShuffle' = LoadedList(savedState["originalQueueBeforeShuffle"])
        /\ currentQueueIndex' = LoadedIndex(savedState["currentQueueIndex"])
        /\ shuffleActive' = LoadedFlag(savedState["shuffleActive"])
        /\ smartShuffleActive' = LoadedFlag(savedState["smartShuffleActive"])
        /\ repeatMode' = LoadedRepeat(savedState["repeatMode"])
        /\ autoqueueEnabled' = LoadedFlag(savedState["autoqueueEnabled"])
        /\ autoqueueSeeds' = LoadedList(savedState["autoqueueSeeds"])
        /\ currentTrack' = At(ActiveOf(shuffleActive', queue', shuffledQueue'),
                              currentQueueIndex')
        /\ autoqueueLoading' = FALSE
        /\ preloadCache' = {}
        /\ audioTime' = 0
        /\ smartTasks' = <<>>
        /\ preloads' = <<>>
        /\ fetches' = 0
        /\ plays' = 0
        /\ sleepTimer' = NoTimer
        /\ sleepTimerEndTime' = NoTimer
        /\ timeouts' = {}
        /\ timersSet' = 0
        /\ now' = 0
        /\ pauses' = 0
        /\ UNCHANGED saved
        /\ lastOp' = [name |-> "loadQueueState", track |-> NoTrack, args |-> <<absent>>]
        /\ EndCycle

\* -------------------------------------------------------------- the system
\* the step leaves at most one fetch in flight: the caller asks for no new
\* recommendations while the answer to an earlier request is outstanding
NoOverlap == fetches' <= 1

\* Each specification is the player driven by one family of callers; every
\* one holds the actions that resume what its handlers park.

\* editing the queue of a local library, in linear and in shuffle mode
NextEdit ==
    \/ \E tracks \in TrackLists(LocalIds) : \E startIndex \in 0..(Len(tracks) - 1) :
         SetQueue(tracks, startIndex, FALSE)
    \/ \E t \in LocalIds : AddToQueue(t)
    \/ \E t \in LocalIds : AddNextToQueue(t)
    \/ \E index \in 0..(MaxLen - 1) : RemoveFromQueue(index)
    \/ ClearQueue
    \/ \E fromIndex, toIndex \in -1..(MaxLen - 1) : MoveInQueue(fromIndex, toIndex)
    \/ ToggleShuffleOn
    \/ PlayStarted

SpecEdit == Init /\ [][NextEdit]_vars

\* the shuffle cycle over a queue of local tracks, the recommendation
\* services answering with streamed ones
NextShuffle ==
    \/ \E tracks \in TrackLists(LocalIds) : \E startIndex \in 0..(Len(tracks) - 1) :
         SetQueue(tracks, startIndex, FALSE)
    \/ PlayTrackFromQueue
    \/ ToggleShuffleOn
    \/ ToggleShuffleSmart
    \/ ToggleShuffleOff
    \/ \E k \in 1..Len(smartTasks) : SmartHistory(k)
    \/ \E k \in 1..Len(smartTasks) : SmartRecs(k)
    \/ \E k \in 1..Len(smartTasks) : SmartSearch(k)
    \/ PlayStarted
    \/ \E k \in 1..Len(preloads) : PreloadResolve(k)

SpecShuffle == Init /\ [][NextShuffle]_vars

\* streamed tracks: playback fills the preload cache and radio mode fetches
\* one answer at a time, while the recommendation service of smart shuffle
\* stays silent
NextCache ==
    \/ \E tracks \in TrackLists(RemoteIds) : \E startIndex \in 0..(Len(tracks) - 1) :
         \E autoqueue \in BOOLEAN : SetQueue(tracks, startIndex, autoqueue) /\ NoOverlap
    \/ ClearQueue
    \/ PlayTrackFromQueue
    \/ PlayNext /\ NoOverlap
    \/ ToggleShuffleOn
    \/ ToggleShuffleSmart
    \/ PlayStarted
    \/ \E k \in 1..Len(preloads) : PreloadResolve(k)
    \/ FetchComplete

SpecCache == Init /\ [][NextCache]_vars

\* smart shuffle started over a local library, which may be empty, and played
\* through, the recommendation services answering with streamed tracks or
\* failing
NextSmart ==
    \/ \E tracks \in TrackLists(LocalIds) \cup {<<>>} : StartSmartShuffle(tracks)
    \/ \E k \in 1..Len(smartTasks) : SmartHistory(k)
    \/ \E k \in 1..Len(smartTasks) : SmartRecs(k)
    \/ \E k \in 1..Len(smartTasks) : SmartSearch(k)
    \/ PlayTrackFromQueue
    \/ PlayNext
    \/ ToggleShuffleOn
    \/ ToggleShuffleOff
    \/ PlayStarted
    \/ \E k \in 1..Len(preloads) : PreloadResolve(k)

SpecSmart == Init /\ [][NextSmart]_vars

\* the transport buttons over a queue of local tracks while time passes
NextTransport ==
    \/ \E tracks \in TrackLists(LocalIds) : \E startIndex \in 0..(Len(tracks) - 1) :
         SetQueue(tracks, startIndex, FALSE)
    \/ \E t \in LocalIds : AddToQueue(t)
    \/ \E index \in -1..MaxLen : PlayAtIndex(index)
    \/ PlayNext
    \/ PlayPrev
    \/ ToggleRepeat
    \/ PlayStarted
    \/ Tick

SpecTransport == Init /\ [][NextTransport]_vars

\* radio mode: a queue of streamed tracks that the recommendation fetches
\* extend, one answer at a time, played through in each repeat mode, in
\* linear and shuffle order
NextRadio ==
    \/ \E tracks \in TrackLists(RemoteIds) : \E autoqueue \in BOOLEAN :
         SetQueue(tracks, 0, autoqueue) /\ NoOverlap
    \/ PlayNext /\ NoOverlap
    \/ ToggleRepeat
    \/ ToggleShuffleOn
    \/ PlayStarted
    \/ \E k \in 1..Len(preloads) : PreloadResolve(k)
    \/ FetchComplete

SpecRadio == Init /\ [][NextRadio]_vars

\* the sleep timer set, set again and cleared while the minutes pass
NextSleep ==
    \/ \E minutes \in 1..MaxMinutes : SetSleepTimer(minutes)
    \/ ClearSleepTimer
    \/ \E t \in timeouts : SleepTimerFires(t)
    \/ PassMinute

SpecSleep == Init /\ [][NextSleep]_vars

\* a listener who adds, inserts and removes tracks while stepping through
\* the queue in each repeat mode
Next ==
    \/ \E t \in LocalIds : AddToQueue(t)
    \/ \E t \in LocalIds : AddNextToQueue(t)
    \/ \E index \in 0..(MaxLen - 1) : RemoveFromQueue(index)
    \/ ClearQueue
    \/ ToggleShuffleOn
    \/ PlayNext
    \/ ToggleRepeat
    \/ PlayStarted

Spec == Init /\ [][Next]_vars

\* sessions of a local library that end with the page being loaded again
NextRestore ==
    \/ \E tracks \in TrackLists(LocalIds) : \E startIndex \in 0..(Len(tracks) - 1) :
         SetQueue(tracks, startIndex, FALSE)
    \/ \E index \in 0..(MaxLen - 1) : RemoveFromQueue(index)
    \/ ToggleShuffleOn
    \/ ToggleRepeat
    \/ PlayTrackFromQueue
    \/ PlayStarted
    \/ \E absent \in AbsentSets : LoadQueueState(absent)

SpecRestore == Init /\ [][NextRestore]_vars

\* radio mode with the listener replacing and clearing the queue at any
\* moment, also while recommendations are being fetched
NextFetch ==
    \/ \E tracks \in TrackLists(RemoteIds) : \E autoqueue \in BOOLEAN :
         SetQueue(tracks, 0, autoqueue)
    \/ ClearQueue
    \/ PlayTrackFromQueue
    \/ PlayNext
    \/ PlayStarted
    \/ \E k \in 1..Len(preloads) : PreloadResolve(k)
    \/ FetchComplete

SpecFetch == Init /\ [][NextFetch]_vars

\* the same, every request for recommendations being answered or failing in
\* the end
FairFetch == SpecFetch /\ WF_vars(FetchComplete)

\* an album played through from its first track in each repeat mode, with
\* and without radio mode, whose fetches find nothing new to add
NextAlbum ==
    \/ \E autoqueue \in BOOLEAN : SetQueue(Album, 0, autoqueue)
    \/ PlayTrackFromQueue
    \/ PlayNext /\ NoOverlap
    \/ ToggleRepeat
    \/ PlayStarted
    \/ \E k \in 1..Len(preloads) : PreloadResolve(k)
    \/ FetchComplete

SpecAlbum == Init /\ [][NextAlbum]_vars

\* the queue of a streamed playlist edited while it plays
NextRevise ==
    \/ \E tracks \in TrackLists(RemoteIds) : SetQueue(tracks, 0, FALSE)
    \/ \E t \in RemoteIds : AddNextToQueue(t)
    \/ \E index \in 0..(MaxLen - 1) : RemoveFromQueue(index)
    \/ ClearQueue
    \/ ToggleShuffleOn
    \/ PlayTrackFromQueue
    \/ PlayStarted
    \/ \E k \in 1..Len(preloads) : PreloadResolve(k)

SpecRevise == Init /\ [][NextRevise]_vars

\* the shuffle button and the smart-shuffle entry point used while the queue
\* of a local library is replaced and cleared and recommendation calls are
\* under way
NextModes ==
    \/ \E tracks \in TrackLists(LocalIds) : SetQueue(tracks, 0, FALSE)
    \/ ClearQueue
    \/ \E tracks \in TrackLists(LocalIds) : StartSmartShuffle(tracks)
    \/ ToggleShuffleOn
    \/ ToggleShuffleSmart
    \/ ToggleShuffleOff
    \/ \E k \in 1..Len(smartTasks) : SmartHistory(k)
    \/ \E k \in 1..Len(smartTasks) : SmartRecs(k)
    \/ \E k \in 1..Len(smartTasks) : SmartSearch(k)
    \/ \E k \in 1..Len(preloads) : PreloadResolve(k)

SpecModes == Init /\ [][NextModes]_vars

\* tracks of a local library added to the queue while smart shuffle is on,
\* until the listener turns shuffle off
NextGrow ==
    \/ \E tracks \in TrackLists(LocalIds) : StartSmartShuffle(tracks)
    \/ \E t \in LocalIds : AddToQueue(t)
    \/ \E t \in LocalIds : AddNextToQueue(t)
    \/ ToggleShuffleOff
    \/ \E k \in 1..Len(smartTasks) : SmartHistory(k)
    \/ \E k \in 1..Len(smartTasks) : SmartRecs(k)
    \/ \E k \in 1..Len(smartTasks) : SmartSearch(k)
    \/ PlayStarted
    \/ \E k \in 1..Len(preloads) : PreloadResolve(k)

SpecGrow == Init /\ [][NextGrow]_vars

\* a local library whose queue is edited through positions that may be stale
\* or miscounted
NextStray ==
    \/ \E tracks \in TrackLists(LocalIds) : \E startIndex \in 0..(Len(tracks) - 1) :
         SetQueue(tracks, startIndex, FALSE)
    \/ \E t \in LocalIds : AddNextToQueue(t)
    \/ \E index \in 0..(MaxLen - 1) : RemoveFromQueue(index)
    \/ \E index \in (0 - MaxLen - 1)..(MaxLen + 1) : RemoveOutside(index)
    \/ ToggleShuffleOn

SpecStray == Init /\ [][NextStray]_vars

\* the playlists a session can have been stored with
StoredLists == {Slice(Playlist, 0, n) : n \in 1..MaxStored}

\* the player as its constructor leaves it when the stored session is a
\* playlist in plain shuffle that was being played: loadQueueState() has
\* restored the lists, the index and the flags and set the current track
InitStored ==
    /\ queue \in StoredLists
    /\ shuffledQueue = queue
    /\ originalQueueBeforeShuffle = queue
    /\ currentQueueIndex \in 0..(Len(queue) - 1)
    /\ shuffleActive = TRUE
    /\ smartShuffleActive = FALSE
    /\ repeatMode = REPEAT_OFF
    /\ currentTrack = At(shuffledQueue, currentQueueIndex)
    /\ autoqueueEnabled = FALSE
    /\ autoqueueLoading = FALSE
    /\ autoqueueSeeds = <<>>
    /\ preloadCache = {}
    /\ audioTime = 0
    /\ saved = SessionOf(queue, shuffledQueue, originalQueueBeforeShuffle,
                         currentQueueIndex, TRUE, FALSE, REPEAT_OFF, FALSE, <<>>)
    /\ smartTasks = <<>>
    /\ preloads = <<>>
    /\ fetches = 0
    /\ plays = 0
    /\ lastOp = [name |-> "loadQueueState", track |-> NoTrack, args |-> <<{}>>]
    /\ cycle = NoCycle
    /\ sleepTimer = NoTimer
    /\ sleepTimerEndTime = NoTimer
    /\ timeouts = {}
    /\ timersSet = 0
    /\ now = 0
    /\ pauses = 0

\* smart shuffle switched on over the restored playlist, the recommendation
\* services answering with up to MaxStoredRecs tracks
NextInject ==
    \/ ToggleShuffleSmart
    \/ \E k \in 1..Len(smartTasks) : SmartHistory(k)
    \/ \E k \in 1..Len(smartTasks) : SmartRecsUpTo(k, MaxStoredRecs)
    \/ \E k \in 1..Len(smartTasks) : SmartSearchWithin(k, MaxStored + MaxStoredRecs)
    \/ \E k \in 1..Len(preloads) : PreloadResolve(k)

SpecInject == InitStored /\ [][NextInject]_vars

\* ==================================================================== claims
\* the active queue after the step
ActiveQueueNext == ActiveOf(shuffleActive', queue', shuffledQueue')

\* C1: after any sequence of setQueue, addToQueue, addNextToQueue,
\* removeFromQueue, moveInQueue, clearQueue and toggleShuffle the index
\* satisfies -1 <= currentQueueIndex <= length(active queue) - 1
C1_IndexInBounds ==
    -1 <= currentQueueIndex /\ currentQueueIndex <= Len(ActiveQueue) - 1

\* C2: from OFF with base queue Q and a track playing at index i, once the
\* toggleShuffle calls have brought the mode back to OFF with no queue edit
\* in between, queue = Q and currentQueueIndex = i
C2_ShuffleRoundTrip ==
    cycle.phase = "done" => queue = cycle.q /\ currentQueueIndex = cycle.idx

\* C3: the OFF -> SHUFFLE step leaves a shuffledQueue with the multiset of
\* the base queue, a snapshot equal to the base queue, and the track the
\* index designated at position 0 with currentQueueIndex 0, or
\* currentQueueIndex -1 when the index designated none
C3_ShuffleOn ==
    [][ToggleShuffleOn =>
          /\ SameMultiset(shuffledQueue', queue)
          /\ originalQueueBeforeShuffle' = queue
          /\ queue' = queue
          /\ IF At(queue, currentQueueIndex) # NoTrack
             THEN /\ At(shuffledQueue', 0) = At(queue, currentQueueIndex)
                  /\ currentQueueIndex' = 0
             ELSE currentQueueIndex' = -1]_vars

\* C3 happens: shuffle was just turned on under a playing track of a
\* three-track queue, and the order did change
C3_Witness ==
    /\ lastOp.name = "toggleShuffle"
    /\ shuffleActive /\ ~smartShuffleActive
    /\ cycle.phase = "on"
    /\ Len(shuffledQueue) = MaxLen
    /\ shuffledQueue # queue
    /\ originalQueueBeforeShuffle = queue
    /\ currentQueueIndex = 0

\* C4: addNextToQueue(t) followed at once by playNext, in a repeat mode in
\* which playNext advances, makes t the current track and leaves
\* currentQueueIndex pointing at t in the active queue
C4_InsertNextThenPlayNext ==
    [][(/\ lastOp.name = "addNextToQueue"
        /\ lastOp'.name = "playNext"
        /\ repeatMode # REPEAT_ONE) =>
          /\ currentTrack' = lastOp.track
          /\ At(ActiveQueueNext, currentQueueIndex') = lastOp.track]_vars

\* C5: removeFromQueue(i) at a valid position i takes exactly the track at
\* position i out of the active queue, shifts the index down by one when
\* i < currentQueueIndex, leaves it when i > currentQueueIndex, and leaves
\* the current track alone when i = currentQueueIndex
C5_RemoveAt ==
    [][\A i \in 0..(MaxLen - 1) : RemoveFromQueue(i) =>
          /\ Len(ActiveQueueNext) = Len(ActiveQueue) - 1
          /\ \A k \in 0..(MaxLen - 1) :
                At(ActiveQueueNext, k) = IF k < i THEN At(ActiveQueue, k)
                                         ELSE At(ActiveQueue, k + 1)
          /\ (i < currentQueueIndex => currentQueueIndex' = currentQueueIndex - 1)
          /\ (i > currentQueueIndex => currentQueueIndex' = currentQueueIndex)
          /\ (i = currentQueueIndex => currentTrack' = currentTrack)
          /\ plays' = plays]_vars

\* C5 happens: a track was removed from a queue of three while its first
\* track plays, which is now the first of two
C5_Witness ==
    /\ lastOp.name = "removeFromQueue"
    /\ Len(ActiveQueue) = MaxLen - 1
    /\ currentQueueIndex = 0
    /\ currentTrack # NoTrack
    /\ At(ActiveQueue, currentQueueIndex) = currentTrack

\* C6: after moveInQueue(from, to) with both positions in range and the
\* index in [-1, length - 1], the index designates the track it designated
\* before, and the queue is the old one with only the moved track relocated
\* to position to
C6_MoveKeepsCurrent ==
    [][\A from, to \in 0..(MaxLen - 1) :
          (/\ MoveInQueue(from, to)
           /\ from < Len(ActiveQueue) /\ to < Len(ActiveQueue)
           /\ -1 <= currentQueueIndex /\ currentQueueIndex < Len(ActiveQueue)) =>
             /\ At(ActiveQueueNext, currentQueueIndex') = At(ActiveQueue, currentQueueIndex)
             /\ -1 <= currentQueueIndex' /\ currentQueueIndex' < Len(ActiveQueueNext)
             /\ (currentQueueIndex = -1 => currentQueueIndex' = -1)
             /\ At(ActiveQueueNext, to) = At(ActiveQueue, from)
             /\ SpliceOut(ActiveQueueNext, to) = SpliceOut(ActiveQueue, from)
             /\ (from = currentQueueIndex => currentQueueIndex' = to)
             /\ (from # currentQueueIndex =>
                    currentQueueIndex' - currentQueueIndex \in {-1, 0, 1})]_vars

\* C6 happens: a move across the playing position of a three-track queue
\* has shifted the index to the middle
C6_Witness ==
    /\ lastOp.name = "moveInQueue"
    /\ Len(ActiveQueue) = MaxLen
    /\ currentQueueIndex = 1
    /\ currentTrack # NoTrack
    /\ At(ActiveQueue, currentQueueIndex) = currentTrack

\* C7: addToQueue(t) puts t at the end of the active queue, and when nothing
\* is loaded t starts playing with currentQueueIndex pointing at it in the
\* active queue
C7_AppendToActive ==
    [][\A t \in LocalIds : AddToQueue(t) =>
          /\ ActiveQueueNext = Append(ActiveQueue, t)
          /\ (NothingLoaded =>
                 /\ currentTrack' = t
                 /\ At(ActiveQueueNext, currentQueueIndex') = t)]_vars

\* C8: after setQueue(tracks, startIndex, autoqueue) the base queue is
\* tracks, both shuffle flags are false, currentQueueIndex is startIndex, the
\* preload cache is empty and autoqueueEnabled is the autoqueue argument
C8_SetQueue ==
    lastOp.name = "setQueue" =>
       /\ queue = lastOp.args[1]
       /\ ~shuffleActive /\ ~smartShuffleActive
       /\ currentQueueIndex = lastOp.args[2]
       /\ preloadCache = {}
       /\ autoqueueEnabled = lastOp.args[3]

\* C8 happens: setQueue with autoqueue replaced a queue that had been
\* shuffled, the shuffled order of the old queue still in place
C8_Witness ==
    /\ lastOp.name = "setQueue"
    /\ autoqueueEnabled
    /\ shuffledQueue # <<>>
    /\ ~shuffleActive /\ ~smartShuffleActive
    /\ preloadCache = {}

\* C9: after clearQueue the base queue, the shuffled queue and the
\* pre-shuffle snapshot are empty, currentQueueIndex is -1 and the preload
\* cache is empty
C9_ClearQueue ==
    lastOp.name = "clearQueue" =>
       /\ queue = <<>>
       /\ shuffledQueue = <<>>
       /\ originalQueueBeforeShuffle = <<>>
       /\ currentQueueIndex = -1
       /\ preloadCache = {}

\* C9 happens: the queue was cleared in shuffle mode under a playing track
C9_Witness ==
    /\ lastOp.name = "clearQueue"
    /\ shuffleActive
    /\ currentTrack # NoTrack
    /\ queue = <<>>

\* the mode as the pair (shuffleActive, smartShuffleActive) and its successor
\* in the cycle OFF -> SHUFFLE -> SMART_SHUFFLE -> OFF
ModeSuccessor(sh, sm) ==
    IF ~sh /\ ~sm THEN <<TRUE, FALSE>>
    ELSE IF sh /\ ~sm THEN <<TRUE, TRUE>>
    ELSE <<FALSE, FALSE>>

\* C10: every toggleShuffle call moves the mode to its successor in the
\* cycle OFF -> SHUFFLE -> SMART_SHUFFLE -> OFF, and a recommendation step
\* that succeeds leaves the mode where the call put it
C10_ModeCycle ==
    [][/\ lastOp'.name = "toggleShuffle" =>
             <<shuffleActive', smartShuffleActive'>> =
                 ModeSuccessor(shuffleActive, smartShuffleActive)
       /\ lastOp'.name \in {"smartAwaits", "smartReturned"} =>
             <<shuffleActive', smartShuffleActive'>> =
                 <<shuffleActive, smartShuffleActive>>]_vars

\* C10 happens: a toggle has closed a full cycle that began under a playing
\* track, the recommendation step having returned in between
C10_Witness ==
    /\ lastOp.name = "toggleShuffle"
    /\ ~shuffleActive /\ ~smartShuffleActive
    /\ cycle.phase = "done"
    /\ smartTasks = <<>>
    /\ Len(shuffledQueue) > Len(queue)

\* C11: when the recommendation step of the SHUFFLE -> SMART_SHUFFLE toggle
\* throws, toggleShuffle ends in OFF as the SMART_SHUFFLE -> OFF branch would
\* leave it: both flags false, the base queue in its pre-shuffle order, and
\* currentQueueIndex at the position of the playing track in the base queue
C11_FailureRollsBack ==
    [][(/\ lastOp'.name = "smartThrew"
        /\ currentTrack # NoTrack
        /\ At(shuffledQueue, currentQueueIndex) = currentTrack) =>
          /\ ~shuffleActive' /\ ~smartShuffleActive'
          /\ queue' = originalQueueBeforeShuffle
          /\ currentQueueIndex' = FindIndex(queue', At(shuffledQueue, currentQueueIndex))]_vars

\* C12: the SMART_SHUFFLE -> OFF branch makes the base queue a copy of the
\* snapshot and moves currentQueueIndex to the first position of the restored
\* list holding the track that was current in the shuffled queue, or to -1
\* when the restored list does not hold it
C12_ShuffleOffRestores ==
    [][ToggleShuffleOff =>
          LET cur == At(shuffledQueue, currentQueueIndex)
          IN  /\ queue' = originalQueueBeforeShuffle
              /\ ~shuffleActive' /\ ~smartShuffleActive'
              /\ IF cur # NoTrack /\ cur \in Ids(originalQueueBeforeShuffle)
                 THEN /\ At(queue', currentQueueIndex') = cur
                      /\ \A j \in 0..(currentQueueIndex' - 1) : At(queue', j) # cur
                 ELSE currentQueueIndex' = -1]_vars

\* C12 happens: smart shuffle was turned off while an injected recommendation
\* was the current track, so the index fell to -1 over a restored queue
C12_Witness ==
    /\ lastOp.name = "toggleShuffle"
    /\ ~shuffleActive /\ ~smartShuffleActive
    /\ currentQueueIndex = -1
    /\ currentTrack \in RemoteIds
    /\ queue # <<>>
    /\ queue = originalQueueBeforeShuffle

\* the steps with which a state-affecting operation finishes
FinishedOps ==
    {"setQueue", "addToQueue", "addNextToQueue", "removeFromQueue", "moveInQueue",
     "clearQueue", "toggleShuffle", "toggleRepeat", "playAtIndex", "playNext",
     "playPrev", "fetchComplete", "smartReturned", "smartThrew", "startThrew"}

\* C20: whenever a state-affecting operation has finished, with or without
\* an error, and none is still awaiting, the persisted session equals the
\* session in memory in all nine fields
C20_PersistedSession ==
    (lastOp.name \in FinishedOps /\ smartTasks = <<>>) =>
        saved = SessionOf(queue, shuffledQueue, originalQueueBeforeShuffle,
                          currentQueueIndex, shuffleActive, smartShuffleActive,
                          repeatMode, autoqueueEnabled, autoqueueSeeds)

\* C13: in repeat ONE, playNext restarts the same track from position 0 and
\* leaves currentQueueIndex, the queues and the current track unchanged
C13_RepeatOneRestarts ==
    [][(lastOp'.name = "playNext" /\ repeatMode = REPEAT_ONE) =>
          /\ audioTime' = 0
          /\ currentQueueIndex' = currentQueueIndex
          /\ currentTrack' = currentTrack
          /\ queue' = queue
          /\ shuffledQueue' = shuffledQueue
          /\ originalQueueBeforeShuffle' = originalQueueBeforeShuffle
          /\ plays' = plays]_vars

\* C13 happens: playNext in repeat ONE has put a playing track, not the last
\* of its queue, back to position 0
C13_Witness ==
    /\ lastOp.name = "playNext"
    /\ repeatMode = REPEAT_ONE
    /\ currentTrack # NoTrack
    /\ At(ActiveQueue, currentQueueIndex) = currentTrack
    /\ currentQueueIndex < Len(ActiveQueue) - 1
    /\ audioTime = 0
    /\ plays = 0

\* C14 as stated: playPrev at a playback position of at most 3 s into the
\* current track, a track before it in the queue, seeks to 0 and leaves
\* currentQueueIndex unchanged
C14_PrevWithinThreeSeconds ==
    [][(/\ lastOp'.name = "playPrev"
        /\ audioTime <= PrevRestartSeconds
        /\ currentQueueIndex > 0
        /\ currentTrack # NoTrack
        /\ At(ActiveQueue, currentQueueIndex) = currentTrack) =>
          /\ audioTime' = 0
          /\ currentQueueIndex' = currentQueueIndex]_vars

\* C14 amended: playPrev at a playback position above 3 s seeks to 0 and
\* leaves currentQueueIndex and the current track unchanged; at a position of
\* at most 3 s it moves to the previous position when currentQueueIndex > 0
\* and changes nothing when currentQueueIndex <= 0
C14_PrevAfterThreeSeconds ==
    [][lastOp'.name = "playPrev" =>
          /\ audioTime > PrevRestartSeconds =>
                /\ audioTime' = 0
                /\ currentQueueIndex' = currentQueueIndex
                /\ currentTrack' = currentTrack
                /\ plays' = plays
          /\ (audioTime <= PrevRestartSeconds /\ currentQueueIndex > 0) =>
                /\ currentQueueIndex' = currentQueueIndex - 1
                /\ audioTime' = audioTime
                /\ currentQueueIndex' < Len(ActiveQueue) =>
                      currentTrack' = At(ActiveQueue, currentQueueIndex - 1)
          /\ (audioTime <= PrevRestartSeconds /\ currentQueueIndex <= 0) =>
                /\ currentQueueIndex' = currentQueueIndex
                /\ audioTime' = audioTime
                /\ currentTrack' = currentTrack]_vars

\* C14 happens: playPrev more than 3 s into the second track of a queue has
\* restarted it
C14_Witness ==
    /\ lastOp.name = "playPrev"
    /\ lastOp.args = <<>>
    /\ audioTime = 0
    /\ currentQueueIndex = 1
    /\ currentTrack # NoTrack
    /\ At(ActiveQueue, currentQueueIndex) = currentTrack
    /\ plays = 0

\* C15: when resolving or starting the target track fails right after
\* playAtIndex, playNext or playPrev asked for another track than the one
\* playing, currentQueueIndex and currentTrack are what they were before the
\* request
C15_FailureKeepsPrevious ==
    [][(/\ lastOp.name \in {"playAtIndex", "playNext", "playPrev"}
        /\ lastOp.args # <<>>
        /\ lastOp.args[2] # NoTrack
        /\ currentTrack # lastOp.args[2]
        /\ lastOp'.name = "playFailed") =>
          /\ currentQueueIndex' = lastOp.args[1]
          /\ currentTrack' = lastOp.args[2]]_vars

\* C16: with autoqueue enabled, repeat mode not ALL and currentQueueIndex at
\* the last position of the active queue, playNext leaves currentQueueIndex
\* and the current track unchanged and starts no other track
C16_HoldsAtLastTrack ==
    [][(/\ lastOp'.name = "playNext"
        /\ autoqueueEnabled
        /\ repeatMode # REPEAT_ALL
        /\ Len(ActiveQueue) >= 1
        /\ currentQueueIndex = Len(ActiveQueue) - 1) =>
          /\ currentQueueIndex' = currentQueueIndex
          /\ currentTrack' = currentTrack
          /\ plays' = plays]_vars

\* C16 happens: in radio mode with repeat OFF, playNext returned at the last
\* of at least two tracks, the one playing, with a fetch under way
C16_Witness ==
    /\ lastOp.name = "playNext"
    /\ lastOp.args = <<>>
    /\ autoqueueEnabled
    /\ repeatMode = REPEAT_OFF
    /\ Len(ActiveQueue) >= 2
    /\ currentQueueIndex = Len(ActiveQueue) - 1
    /\ currentTrack = At(ActiveQueue, currentQueueIndex)
    /\ autoqueueLoading

\* C17: setQueue with exactly one track and autoqueue = true starts exactly
\* one recommendation fetch, within the call itself
C17_SingleTrackFetch ==
    [][(lastOp'.name = "setQueue" /\ Len(queue') = 1 /\ autoqueueEnabled') =>
          /\ fetches' = fetches + 1
          /\ autoqueueLoading']_vars

\* C17 happens: a one-track radio queue was set with nothing played yet and
\* its fetch is in flight
C17_Witness ==
    /\ lastOp.name = "setQueue"
    /\ Len(queue) = 1
    /\ autoqueueEnabled
    /\ autoqueueLoading
    /\ fetches = 1
    /\ plays = 0
    /\ currentTrack = NoTrack

\* C18: every track a finished autoqueue fetch appends to the queue has an
\* id the queue did not hold before, in shuffle mode as in linear mode
C18_NoDuplicateAppend ==
    [][lastOp'.name = "fetchComplete" =>
          \A k \in (Len(queue) + 1)..Len(queue') : queue'[k] \notin Ids(queue)]_vars

\* C19: at most one sleep timeout is pending at any time; the timeout that
\* fires is the one of the latest setSleepTimer call, at its deadline, each
\* firing pauses once, and after it the timer is cleared
C19_SleepTimerOneShot ==
    [][/\ Cardinality(timeouts') <= 1
       /\ (sleepTimer' = NoTimer) <=> (timeouts' = {})
       /\ pauses' # pauses => lastOp'.name = "sleepTimerFired"
       /\ \A t \in timeouts : SleepTimerFires(t) =>
             /\ t.id = sleepTimer
             /\ t.at = sleepTimerEndTime
             /\ now = sleepTimerEndTime
             /\ pauses' = pauses + 1
             /\ sleepTimer' = NoTimer
             /\ timeouts' = {}]_vars

\* C19 happens: a timer with its deadline at minute 1 was replaced by one with
\* its deadline at minute 2, and the only pause came at minute 2
C19_Witness ==
    /\ lastOp.name = "sleepTimerFired"
    /\ lastOp.args = <<1>>
    /\ now = 2
    /\ pauses = 1
    /\ timersSet = 2
    /\ sleepTimer = NoTimer
    /\ timeouts = {}

\* the value loadQueueState is to give a field: the stored one when the
\* field is present, the initial one otherwise
Restored(absent, f, initial) == IF f \in absent THEN initial ELSE saved[f]

\* C21: after the restore at startup every field present in the stored
\* session has the stored value and every absent one its initial value, the
\* current track is the track of the active queue at currentQueueIndex when
\* that index is in range, and no playback was started
C21_RestoreReproduces ==
    lastOp.name = "loadQueueState" =>
       LET absent == lastOp.args[1]
       IN  /\ queue = Restored(absent, "queue", <<>>)
           /\ shuffledQueue = Restored(absent, "shuffledQueue", <<>>)
           /\ originalQueueBeforeShuffle =
                  Restored(absent, "originalQueueBeforeShuffle", <<>>)
           /\ currentQueueIndex = Restored(absent, "currentQueueIndex", -1)
           /\ shuffleActive = Restored(absent, "shuffleActive", FALSE)
           /\ smartShuffleActive = Restored(absent, "smartShuffleActive", FALSE)
           /\ repeatMode = Restored(absent, "repeatMode", REPEAT_OFF)
           /\ autoqueueEnabled = Restored(absent, "autoqueueEnabled", FALSE)
           /\ autoqueueSeeds = Restored(absent, "autoqueueSeeds", <<>>)
           /\ (currentQueueIndex >= 0 /\ currentQueueIndex < Len(ActiveQueue)) =>
                 currentTrack = At(ActiveQueue, currentQueueIndex)
           /\ plays = 0
           /\ audioTime = 0

\* C21 happens: a shuffled session in repeat ALL whose first track is current
\* was restored from a store that lacks the snapshot
C21_Witness ==
    /\ lastOp.name = "loadQueueState"
    /\ lastOp.args[1] = {"originalQueueBeforeShuffle"}
    /\ shuffleActive
    /\ repeatMode = REPEAT_ALL
    /\ Len(shuffledQueue) = MaxLen - 1
    /\ originalQueueBeforeShuffle = <<>>
    /\ currentQueueIndex = 0
    /\ currentTrack = At(shuffledQueue, 0)
    /\ plays = 0

\* C22: when startSmartShuffle(tracks) returns with no other handler having
\* run since the call, the base queue and the snapshot are tracks, both
\* shuffle flags are true, shuffledQueue holds every given track as often as
\* tracks does, and currentQueueIndex is a position of shuffledQueue
C22_StartSmartShuffleDone ==
    [][(lastOp'.name = "smartReturned" /\ cycle.phase = "start") =>
          /\ queue' = cycle.q
          /\ originalQueueBeforeShuffle' = cycle.q
          /\ shuffleActive' /\ smartShuffleActive'
          /\ \A id \in LocalIds : Count(shuffledQueue', id) = Count(cycle.q, id)
          /\ currentQueueIndex' >= 0 /\ currentQueueIndex' < Len(shuffledQueue')]_vars

\* C23: when getRecommendations throws during startSmartShuffle(tracks), no
\* other handler having run since the call, the player ends in OFF: both
\* shuffle flags are false
C23_StartFailureEndsOff ==
    [][(/\ lastOp'.name = "startThrew"
        /\ cycle.phase = "start"
        /\ Len(smartTasks) = 1
        /\ smartTasks[1].pc = "recs") =>
          ~shuffleActive' /\ ~smartShuffleActive']_vars

\* the handlers C24 names
QueueMutations ==
    {"setQueue", "addToQueue", "addNextToQueue", "removeFromQueue", "moveInQueue",
     "clearQueue", "toggleShuffle"}

\* a toggleShuffle call is suspended in enableSmartShuffle
ToggleSuspended == \E k \in 1..Len(smartTasks) : smartTasks[k].kind = "toggle"

\* C24: no queue-mutating operation runs while another one is in progress:
\* while a toggleShuffle call is suspended, with smartShuffleActive set and
\* the injection not done, no queue mutation takes a step
C24_MutationsAtomic ==
    [][ToggleSuspended => lastOp'.name \notin QueueMutations]_vars

\* C25: at most one recommendation fetch is in flight at any time, and
\* autoqueueLoading is true exactly while a fetch is in flight
C25_FetchesSerialized ==
    /\ fetches <= 1
    /\ autoqueueLoading <=> fetches > 0

\* the handler that ran last replaced or cleared the queue and started no
\* fetch of its own, so that every fetch in flight is older than the queue
QueueJustReplaced ==
    \/ lastOp.name = "clearQueue"
    \/ /\ lastOp.name = "setQueue"
       /\ ~SetQueueFetches(lastOp.args[1], lastOp.args[3])

\* C26: a recommendation fetch that was started before a clearQueue or
\* setQueue and completes after it adds no track to the new base queue or
\* the new shuffled queue
C26_StaleResultDiscarded ==
    [][(QueueJustReplaced /\ lastOp'.name = "fetchComplete") =>
          queue' = queue /\ shuffledQueue' = shuffledQueue]_vars

\* C27: a prefetch run that a newer preloadNextTracks call has superseded
\* never writes an entry into the preload cache
C27_SupersededNeverWrites ==
    [][\A k \in 1..Len(preloads) :
          (preloads[k].aborted /\ PreloadResolve(k)) => preloadCache' = preloadCache]_vars

\* nothing is under way that could still add to or evict from the cache
CacheAtRest == preloads = <<>> /\ plays = 0 /\ fetches = 0 /\ smartTasks = <<>>

\* C28: in every reachable state in which no entry is in the course of being
\* evicted the preload cache holds at most 2 entries, the size of the
\* upcoming window
C28_CacheWithinWindow ==
    CacheAtRest => Cardinality(preloadCache) <= PreloadAhead

\* the handlers that change the active queue or the shuffle mode
CacheInvalidators ==
    {"setQueue", "clearQueue", "addToQueue", "addNextToQueue", "removeFromQueue",
     "moveInQueue", "toggleShuffle"}

\* C29: right after setQueue, clearQueue, addToQueue, addNextToQueue,
\* removeFromQueue, moveInQueue, an autoqueue append or a toggleShuffle
\* transition the preload cache holds no entry resolved before the change
C29_CacheInvalidated ==
    [][(\/ lastOp'.name \in CacheInvalidators
        \/ lastOp'.name = "fetchComplete" /\ queue' # queue) =>
          preloadCache' \cap preloadCache = {}]_vars

\* C30: when playNext advances to the next track with autoqueue
\* enabled, no fetch loading and the index after the advance within 3 of the
\* end of the active queue, a fetch begins and the advance does not wait
C30_FetchByNewIndex ==
    [][(/\ lastOp'.name = "playNext"
        /\ currentQueueIndex' = currentQueueIndex + 1
        /\ autoqueueEnabled /\ ~autoqueueLoading
        /\ currentQueueIndex' >= Len(ActiveQueue) - NearEndDistance) =>
          /\ fetches' = fetches + 1
          /\ plays' = plays + 1]_vars

\* C31: every autoqueue fetch that starts ends, and ends with
\* autoqueueLoading = false, whether it succeeded, got an empty answer or
\* threw; a fetch that threw leaves the three queues and currentQueueIndex as
\* they were; and once no fetch is loading, the next trigger (playNext near
\* the end with autoqueue enabled) starts a new fetch
C31_FetchEnds ==
    /\ (fetches > 0) ~> (lastOp.name = "fetchComplete" /\ ~autoqueueLoading)
    /\ [][(lastOp'.name = "fetchComplete" => ~autoqueueLoading')
          /\ ((fetches' = fetches - 1 /\ FetchThrew) =>
                 UNCHANGED <<queue, shuffledQueue, originalQueueBeforeShuffle,
                             currentQueueIndex>>)
          /\ ((/\ lastOp'.name = "playNext"
               /\ ~RestartsCurrent(repeatMode)
               /\ autoqueueEnabled /\ ~autoqueueLoading
               /\ IsNearEnd(ActiveQueue, currentQueueIndex)) =>
                 (fetches' = fetches + 1 /\ autoqueueLoading'))]_vars

\* a fetch has ended after appending tracks to a full queue, and nothing is
\* loading any more
C31_Witness ==
    /\ lastOp.name = "fetchComplete"
    /\ ~autoqueueLoading
    /\ autoqueueEnabled
    /\ fetches = 0
    /\ Len(queue) = MaxLen

\* C32: autoqueueSeeds never holds two tracks with the same id, a re-seed by a
\* completed fetch included, and never more than the current track and
\* SeedTake new ones
C32_SeedsDistinct ==
    /\ \A i, j \in 1..Len(autoqueueSeeds) :
          i # j => autoqueueSeeds[i] # autoqueueSeeds[j]
    /\ Len(autoqueueSeeds) <= SeedTake + 1

\* C33: every track smart shuffle injects goes to one of the next
\* SmartInsertSpread = 10 slots after the current position of shuffledQueue
\* as it stands when the track is inserted (to the end when the queue is
\* shorter), however many tracks were injected before it, and the injection
\* changes neither currentQueueIndex nor the track at currentQueueIndex
C33_InjectedWithinTen ==
    [][(lastOp'.name \in {"smartAwaits", "smartReturned"}
        /\ shuffledQueue' # shuffledQueue) =>
          /\ \E t \in RemoteIds :
               \E p \in (currentQueueIndex + 1)..(currentQueueIndex + SmartInsertSpread) :
                 shuffledQueue' = SpliceIn(shuffledQueue, p, t)
          /\ currentQueueIndex' = currentQueueIndex
          /\ At(shuffledQueue', currentQueueIndex') = At(shuffledQueue, currentQueueIndex)]_vars

\* C34: removeFromQueue called with a position outside the active queue, in
\* linear or shuffle mode, completes as a no-op or raises its error with
\* queue, shuffledQueue, the pre-shuffle snapshot and currentQueueIndex all
\* unchanged
C34_RemoveOutsideNoChange ==
    [][lastOp'.name \in {"removeOutside", "removeOutsideThrew"} =>
          UNCHANGED <<queue, shuffledQueue, originalQueueBeforeShuffle,
                      currentQueueIndex>>]_vars

\* C35: in every reachable state, under every interleaving of toggleShuffle,
\* startSmartShuffle, setQueue, clearQueue and completing recommendation
\* calls, smartShuffleActive implies shuffleActive
C35_SmartImpliesShuffle == smartShuffleActive => shuffleActive

\* smart shuffle is on and its recommendation call has returned after
\* injecting a track
C35_Witness ==
    /\ smartShuffleActive
    /\ shuffleActive
    /\ lastOp.name = "smartReturned"
    /\ Len(shuffledQueue) > Len(originalQueueBeforeShuffle)

\* C36: playAtIndex, playNext and playPrev, called in a state whose index is
\* within [-1, length(active queue) - 1], leave it within these bounds, in
\* every repeat mode and also when the active queue is empty
C36_TransportKeepsBounds ==
    [][(/\ lastOp'.name \in {"playAtIndex", "playNext", "playPrev"}
        /\ currentQueueIndex >= -1
        /\ currentQueueIndex <= Len(ActiveQueue) - 1) =>
          /\ currentQueueIndex' >= -1
          /\ currentQueueIndex' <= Len(ActiveQueueNext) - 1]_vars

\* C37: when removeFromQueue has removed the current position and a track
\* followed it in the active queue, the next playNext (repeat mode not ONE)
\* plays that following track
C37_NextAfterRemoval ==
    [][(/\ lastOp.name = "removeFromQueue"
        /\ lastOp.args # <<>>
        /\ lastOp.args[1] # NoTrack
        /\ lastOp'.name = "playNext"
        /\ ~RestartsCurrent(repeatMode)) =>
          currentTrack' = lastOp.args[1]]_vars

\* C38: a track added while shuffle is active, by addToQueue, addNextToQueue
\* or an autoqueue append, is not lost when shuffle is turned off: every
\* track the base queue held before the transition to OFF it holds after it
\* (no track is removed in the sessions considered)
C38_AddedTrackKept ==
    [][(lastOp'.name = "toggleShuffle" /\ shuffleActive /\ ~shuffleActive') =>
          Ids(queue) \subseteq Ids(queue')]_vars

\* C39: when autoqueue is enabled and a fetch completes with at least one
\* new track, the active queue gains the new tracks, in shuffle mode as in
\* linear mode, so that a track follows currentQueueIndex when playback was
\* holding at the last position
C39_FetchExtendsActive ==
    [][(lastOp'.name = "fetchComplete" /\ autoqueueEnabled /\ queue' # queue) =>
          /\ Len(ActiveQueueNext) > Len(ActiveQueue)
          /\ currentQueueIndex = Len(ActiveQueue) - 1 =>
                At(ActiveQueueNext, currentQueueIndex' + 1) # NoTrack]_vars

\* C40: while plain SHUFFLE is active (shuffleActive, not smartShuffleActive),
\* after any sequence of addNextToQueue and valid removeFromQueue calls,
\* shuffledQueue and the pre-shuffle snapshot hold the same multiset of
\* track ids
C40_ShuffleSameTracks ==
    (shuffleActive /\ ~smartShuffleActive) =>
        SameMultiset(shuffledQueue, originalQueueBeforeShuffle)

\* in plain shuffle a track was removed after tracks had been inserted: the
\* shuffled queue is longer than the base queue it was made from
C40_Witness ==
    /\ shuffleActive
    /\ ~smartShuffleActive
    /\ lastOp.name = "removeFromQueue"
    /\ Len(shuffledQueue) > Len(queue)
    /\ Len(shuffledQueue) = MaxLen - 1
====
